---- MODULE Spec2Model ----
\* State-machine model of the task-manager page component
\* (src/app/page.tsx): the React state cells, the socket held in
\* socketRef, localStorage, the HTTP calls in flight, and the server data
\* those calls and the push channel read.
\*
\* Conventions.
\* - One action per handler.  A handler that awaits an HTTP call is two
\* actions: the part up to the await (it appends a request to inflight)
\* and the continuation (Receive...), which may run in any order with
\* respect to the other pending continuations.
\* - The server answers a call from its data at the moment the call is
\* issued; the answer then travels for an arbitrary time.  A read may
\* still fail in transit (the failure is chosen when it is received).
\* - A state change is followed by the re-render and by the effects whose
\* dependencies changed, inside the same action.
\* - lastOp, pushed and emitted are history variables: the handler that ran
\* last, the ids the push handler received since the notification list was
\* last replaced, and the register events sent over the current connection.
\* No action's effect on the other variables depends on them.
EXTENDS Integers, Sequences, FiniteSets, TLC

\* ---------------------------------------------------------------- bounds
\* calls started by the user, logouts, server events and transport losses in
\* one behaviour
MaxEvents == 2

\* ------------------------------------------------------------ value sets
None == "none"
UserIds == {"u1"}
Scopes == {"all", "created"}
StatusFilters == {"all", "Pending"}
Statuses == {"Pending", "Completed"}
NotifIds == <<"n0", "n1", "n2", "n3", "n4", "n5", "n6">>
NotifMsgs == <<"m0", "m1", "m2", "m3", "m4", "m5", "m6">>
NewTaskIds == <<"t1", "t2", "t3">>
\* what GET /users lists
SrvUsers == <<"u1", "u2">>
\* a task of somebody else, assigned to the user before the page is opened
SrvInitTasks == <<[id |-> "t0", status |-> "Completed", mine |-> FALSE]>>
\* an unread notification created before the page is opened
SrvInitNotifs == <<[id |-> "n0", message |-> "m0", isRead |-> FALSE]>>

VARIABLES
    mounted,        \* the component has mounted (effects with [] deps ran)
    currentUser,    \* useState currentUser: None or a user id
    token,          \* localStorage "token"
    storedUser,     \* localStorage "currentUser": None, a user id, "corrupt"
    users,          \* useState users
    tasks,          \* useState tasks
    logsByTask,     \* useState logsByTask: set of <<taskId, logs>> entries
    notifications,  \* useState notifications
    unreadCount,    \* the useMemo cell of unreadCount
    toasts,         \* useState toasts
    timersSetAt,    \* when the expiry timers of the toasts shown were last started
    loading,        \* useState loading
    scope,          \* useState scope
    filterStatus,   \* useState filterStatus
    showTaskForm,   \* useState showTaskForm
    editing,        \* useState editing: <<>> (null) or <<the task being edited>>
    socketRef,      \* socketRef.current: None or "sock"
    sockState,      \* the socket object: None, connecting, connected, closed
    sockets,        \* physical connections opened by io() and not yet closed
    handlers,       \* the handlers registered on the socket: <<>> or <<closure>>
    inflight,       \* HTTP calls issued and not yet received, in issue order
    now,            \* Date.now()
    srvTasks,       \* server: the user's tasks
    srvLogs,        \* server: set of <<taskId, action>> log entries
    srvNotifs,      \* server: the user's notifications, oldest first
    srvRegistered,  \* server: the user id registered for the socket
    chan,           \* push events emitted and not yet delivered
    emitted,        \* history: register events sent since the transport connected
    events,         \* how many calls, logouts and server events have happened
    pushed,         \* history: ids pushed since the list was last replaced
    lastOp          \* history: the handler that ran last

vars == <<mounted, currentUser, token, storedUser, users, tasks, logsByTask,
          notifications, unreadCount, toasts, timersSetAt, loading, scope,
          filterStatus,
          showTaskForm, editing, socketRef, sockState, sockets, handlers,
          inflight, now, srvTasks, srvLogs, srvNotifs, srvRegistered, chan,
          emitted, events, pushed, lastOp>>

\* ----------------------------------------------------------- sequences
SelectSeqBy(s, Test(_)) == SelectSeq(s, Test)

MapSeq(s, F(_)) == [i \in 1..Len(s) |-> F(s[i])]

Ids(s) == {s[i].id : i \in 1..Len(s)}

CountId(s, id) == Cardinality({i \in 1..Len(s) : s[i].id = id})

RemoveAt(s, i) == [j \in 1..(Len(s) - 1) |-> IF j < i THEN s[j] ELSE s[j + 1]]

authVars == <<currentUser, token, storedUser>>
dataVars == <<users, tasks, logsByTask>>
notifVars == <<notifications, unreadCount, pushed>>
filterVars == <<scope, filterStatus>>
formVars == <<showTaskForm, editing>>
sockVars == <<socketRef, sockState, sockets, handlers>>
srvData == <<srvTasks, srvLogs, srvNotifs>>
pushVars == <<srvRegistered, chan, emitted>>

\* ------------------------------------------------------------ the server
\* GET /tasks/my-tasks?filter=..&status=..: the tasks the query selects
Match(sc, st, t) ==
    /\ (sc = "created" => t.mine)
    /\ (st # "all" => t.status = st)

SrvListTasks(sc, st) == SelectSeq(srvTasks, LAMBDA t : Match(sc, st, t))

\* GET /tasks/:id/logs
SrvListLogs(taskId) == {e \in srvLogs : e[1] = taskId}

\* ------------------------------------------------------- pure helpers
\* a showToast that queues nothing
ShowToastDropped(q, message) == q

\* showToast: the toast's id is Date.now().toString()
ShowToast(q, message) == Append(q, [id |-> now, message |-> message])

\* removeToast: filters by id
RemoveToast(q, id) == SelectSeq(q, LAMBDA t : t.id # id)

\* setTimeout(onClose, 5000) of the Toast component (line 66), in milliseconds
ToastInterval == 5000

\* the effect of the Toast component (lines 65-68) depends on onClose, and
\* the page passes a new onClose closure on every render (line 597): each
\* render of the page clears the timer of every toast shown and starts it
\* again.  rendered: the handler changed the page's state
RestartTimers(rendered) ==
    timersSetAt' = IF rendered THEN now ELSE timersSetAt

\* the instant the timers of the toasts shown fire
TimersDue == timersSetAt + ToastInterval

\* the useMemo body of unreadCount
UnreadCountOf(ns) == Cardinality({i \in 1..Len(ns) : ~ns[i].isRead})

\* a memo that depends on notifications.length only
RenderOnLength ==
    unreadCount' = IF Len(notifications') # Len(notifications)
                   THEN UnreadCountOf(notifications')
                   ELSE unreadCount

\* useMemo(..., [notifications]): recomputed on the render that follows a
\* setNotifications call, kept otherwise
Render ==
    unreadCount' = IF notifications' # notifications
                   THEN UnreadCountOf(notifications')
                   ELSE unreadCount

\* a call in flight: ok is the server's verdict on a write (a read can still
\* fail on its way back), arg what the continuation's closure holds, data the
\* response body, late the history flag "a task fetch issued after this one
\* has already been applied"
Req(kind, ok, arg, data) ==
    [kind |-> kind, ok |-> ok, arg |-> arg, data |-> data, late |-> FALSE]

\* the task form is an overlay that covers the page (lines 737-738): the
\* controls of the page are clicked only while it is closed
PageOpen == mounted /\ currentUser # None /\ ~showTaskForm

\* one more event of the environment, while the bound allows it
Spend == events < MaxEvents /\ events' = events + 1

\* fetchUsers up to its await
UsersReq == Req("users", TRUE, None, SrvUsers)

\* fetchTasks up to its await, with the filter state of the closure it runs in
TasksReq(sc, st) == Req("tasks", TRUE, <<sc, st>>, SrvListTasks(sc, st))

\* fetchNotifications up to its await
Reverse(s) == [i \in 1..Len(s) |-> s[Len(s) + 1 - i]]

\* INotification.createdAt: the server creates the notifications one after
\* the other, in the order of NotifIds
CreatedAt(id) == CHOOSE k \in 1..Len(NotifIds) : NotifIds[k] = id

\* the order in which GET /notifications/:userId lists the entries is the
\* server's choice
ListOrders == {"newest first", "oldest first"}

Listed(ns, order) == IF order = "newest first" THEN Reverse(ns) ELSE ns

\* fetchNotifications up to its await; origin tells the bootstrap effect from
\* the Refresh button
NotifsReq(order, origin) ==
    Req("notifs", TRUE, origin, Listed(srvNotifs, order))

\* a cleanup that leaves the listeners attached
CleanupKeeps(hs) == hs

\* the cleanup of the socket effect (lines 215-219): socket.off for the
\* notification, connect and disconnect listeners
Cleanup(hs) == <<>>

\* the effects that run after currentUser became user u (lines 168-220 and
\* 292-298): create the socket unless one is held, register the handlers
\* (closures of this render), then fetchUsers, fetchTasks, fetchNotifications
UserEffects(u, q) ==
    /\ socketRef' = "sock"
    /\ sockState' = IF socketRef = None THEN "connecting" ELSE sockState
    /\ sockets' = IF socketRef = None THEN sockets + 1 ELSE sockets
    /\ handlers' = Append(Cleanup(handlers),
                          [user |-> u, scope |-> scope, status |-> filterStatus])
    /\ \E order \in ListOrders :
          inflight' = q \o <<UsersReq, TasksReq(scope, filterStatus),
                             NotifsReq(order, "bootstrap")>>
    /\ loading' = TRUE

Op(name, arg) == [op |-> name, arg |-> arg]

\* the steps that run the catch block of one of the four fetches
FailedReads ==
    {"fetchUsersFail", "fetchTasksFail", "fetchNotificationsFail", "fetchLogsFail"}

\* ------------------------------------------------------------------ Init
Init ==
    /\ mounted = FALSE
    /\ currentUser = None
    /\ \E st \in {<<None, None>>, <<"tok", "u1">>, <<"tok", "corrupt">>} :
          token = st[1] /\ storedUser = st[2]
    /\ users = <<>>
    /\ tasks = <<>>
    /\ logsByTask = {}
    /\ notifications = <<>>
    /\ unreadCount = 0
    /\ toasts = <<>>
    /\ timersSetAt = 0
    /\ loading = FALSE
    /\ scope = "all"
    /\ filterStatus = "all"
    /\ showTaskForm = FALSE
    /\ editing = <<>>
    /\ socketRef = None
    /\ sockState = None
    /\ sockets = 0
    /\ handlers = <<>>
    /\ inflight = <<>>
    /\ now = 0
    /\ srvTasks = SrvInitTasks
    /\ srvLogs = {}
    /\ srvNotifs = SrvInitNotifs
    /\ srvRegistered = None
    /\ chan = <<>>
    /\ emitted = <<>>
    /\ events = 0
    /\ pushed = <<>>
    /\ lastOp = Op("init", None)

\* --------------------------------------------------------------- session
\* first render: the "load current user" effect (lines 155-165), then the
\* effects of the render it causes
Mount ==
    /\ UNCHANGED events
    /\ RestartTimers(TRUE)
    /\ ~mounted
    /\ mounted' = TRUE
    /\ IF storedUser \in UserIds
       THEN /\ currentUser' = storedUser
            /\ UserEffects(storedUser, inflight)
            /\ UNCHANGED <<token, storedUser>>
       ELSE /\ storedUser' = None      \* absent, or corrupt and removed
            /\ UNCHANGED <<currentUser, token, sockVars, inflight, loading>>
    /\ lastOp' = Op("mount", storedUser)
    /\ UNCHANGED <<dataVars, notifVars, toasts, filterVars, formVars, now,
                   srvData, pushVars>>

\* handleLogin up to its await; good: the server accepts the credentials
HandleLogin(u, good) ==
    /\ Spend
    /\ RestartTimers(TRUE)
    /\ mounted /\ currentUser = None /\ ~loading
    /\ loading' = TRUE
    /\ inflight' = Append(inflight, Req("login", good, None, u))
    /\ lastOp' = Op("handleLogin", u)
    /\ UNCHANGED <<mounted, authVars, dataVars, notifVars, toasts, filterVars,
                   formVars, sockVars, now, srvData, pushVars>>

\* handleLogin after its await (lines 326-342)
ReceiveLogin(i) ==
    /\ UNCHANGED events
    /\ RestartTimers(TRUE)
    /\ i \in 1..Len(inflight) /\ inflight[i].kind = "login"
    /\ LET r == inflight[i]
           rest == RemoveAt(inflight, i)
       IN IF r.ok
          THEN /\ token' = "tok"
               /\ storedUser' = r.data
               /\ currentUser' = r.data
               /\ srvRegistered' = IF socketRef # None /\ sockState = "connected"
                                   THEN r.data ELSE srvRegistered
               /\ emitted' = IF socketRef # None /\ sockState = "connected"
                             THEN Append(emitted, r.data) ELSE emitted
               /\ toasts' = ShowToast(toasts, "Welcome back")
               /\ UserEffects(r.data, rest)
               /\ lastOp' = Op("loginOk", r.data)
          ELSE /\ toasts' = ShowToast(toasts, "Login failed")
               /\ loading' = FALSE
               /\ inflight' = rest
               /\ lastOp' = Op("loginFail", r.data)
               /\ UNCHANGED <<authVars, sockVars, srvRegistered, emitted>>
    /\ UNCHANGED <<mounted, dataVars, notifVars, filterVars, formVars, now,
                   srvData, chan>>

\* a logout that leaves the connection open
DisconnectedNever(n, ref) == n

\* socketRef.current?.disconnect() (line 353): closes the connection held, if
\* one is held
Disconnected(n, ref) == IF ref # None THEN n - 1 ELSE n

\* a reset that forgets the log cache
LogoutDataKeepsLogs == <<<<>>, <<>>, logsByTask>>

\* setTasks([]), setNotifications([]), setLogsByTask({}) (lines 349-351)
LogoutData == <<<<>>, <<>>, {}>>

\* handleLogout (lines 345-359), then the cleanup of the socket effect
\* (lines 215-219) on the render with currentUser = null
HandleLogout ==
    /\ Spend
    /\ RestartTimers(TRUE)
    /\ PageOpen
    /\ token' = None
    /\ storedUser' = None
    /\ currentUser' = None
    /\ tasks' = LogoutData[1]
    /\ notifications' = LogoutData[2]
    /\ logsByTask' = LogoutData[3]
    /\ pushed' = <<>>
    /\ socketRef' = None
    /\ sockState' = IF socketRef # None THEN "closed" ELSE sockState
    /\ sockets' = Disconnected(sockets, socketRef)
    /\ srvRegistered' = IF socketRef # None THEN None ELSE srvRegistered
    /\ chan' = IF socketRef # None THEN <<>> ELSE chan
    /\ emitted' = <<>>
    /\ handlers' = Cleanup(handlers)
    /\ toasts' = ShowToast(toasts, "Logged out successfully")
    /\ Render
    /\ lastOp' = Op("logout", IF /\ tasks # <<>> /\ notifications # <<>>
                                  /\ logsByTask # {} /\ sockState = "connected"
                               THEN "loaded" ELSE "partly loaded")
    /\ UNCHANGED <<mounted, users, loading, filterVars, formVars, inflight, now,
                   srvData>>


\* handleRegister up to its await
HandleRegister(good) ==
    /\ Spend
    /\ RestartTimers(TRUE)
    /\ mounted /\ currentUser = None /\ ~loading
    /\ loading' = TRUE
    /\ inflight' = Append(inflight, Req("register", good, None, None))
    /\ lastOp' = Op("handleRegister", None)
    /\ UNCHANGED <<mounted, authVars, dataVars, notifVars, toasts, filterVars,
                   formVars, sockVars, now, srvData, pushVars>>

\* handleRegister after its await (lines 310-318)
ReceiveRegister(i) ==
    /\ UNCHANGED events
    /\ RestartTimers(TRUE)
    /\ i \in 1..Len(inflight) /\ inflight[i].kind = "register"
    /\ toasts' = ShowToast(toasts, IF inflight[i].ok
                                   THEN "Registration successful! Please login."
                                   ELSE "Registration failed")
    /\ loading' = FALSE
    /\ inflight' = RemoveAt(inflight, i)
    /\ lastOp' = Op(IF inflight[i].ok THEN "registerOk" ELSE "registerFail", None)
    /\ UNCHANGED <<mounted, authVars, dataVars, notifVars, filterVars, formVars,
                   sockVars, now, srvData, pushVars>>

\* ---------------------------------------------------------- push channel
\* connect handlers that emit nothing
RegistersNone(hs) == <<>>

\* the register events the connect handlers emit (line 185), one per handler,
\* each with the user of the render it was created in
Registers(hs) == [k \in 1..Len(hs) |-> hs[k].user]

\* the connection attempt started by io() or by a retry succeeds:
\* socket.on("connect") emits register (lines 182-186)
SocketConnect ==
    /\ UNCHANGED events
    /\ RestartTimers(FALSE)
    /\ sockState = "connecting"
    /\ sockState' = "connected"
    /\ emitted' = Registers(handlers)
    /\ srvRegistered' = IF emitted' # <<>> THEN emitted'[Len(emitted')]
                        ELSE srvRegistered
    /\ lastOp' = Op("socketConnect",
                    IF lastOp.op = "socketDrop" THEN "reconnect" ELSE "connect")
    /\ UNCHANGED <<mounted, authVars, dataVars, notifVars, toasts, loading,
                   filterVars, formVars, socketRef, sockets, handlers, inflight,
                   now, srvData, chan>>

\* transport loss: socket.on("disconnect") logs (188-190); reconnection: true
\* makes the socket retry; the server forgets the registration
SocketDrop ==
    /\ Spend
    /\ RestartTimers(FALSE)
    /\ sockState = "connected"
    /\ sockState' = "connecting"
    /\ srvRegistered' = None
    /\ chan' = <<>>
    /\ emitted' = <<>>
    /\ lastOp' = Op("socketDrop", None)
    /\ UNCHANGED <<mounted, authVars, dataVars, notifVars, toasts, loading,
                   filterVars, formVars, socketRef, sockets, handlers, inflight,
                   now, srvData>>

\* a task event on the server creates a notification for the user and emits
\* it to the registered socket
ServerNotify ==
    /\ Spend
    /\ RestartTimers(FALSE)
    /\ LET n == [id |-> NotifIds[Len(srvNotifs) + 1],
                 message |-> NotifMsgs[Len(srvNotifs) + 1],
                 isRead |-> FALSE]
       IN /\ srvNotifs' = Append(srvNotifs, n)
          /\ chan' = IF srvRegistered # None THEN Append(chan, n) ELSE chan
    /\ lastOp' = Op("serverNotify",
                    IF srvRegistered # None THEN "pushed"
                    ELSE IF lastOp.op = "socketDrop" THEN "after drop"
                    ELSE "not pushed")
    /\ UNCHANGED <<mounted, authVars, dataVars, notifVars, toasts, loading,
                   filterVars, formVars, sockVars, inflight, now, srvTasks,
                   srvLogs, srvRegistered, emitted>>

\* the channel is at-least-once: the creation event of a notification may be
\* emitted again
ServerRedeliver(k) ==
    /\ Spend
    /\ RestartTimers(FALSE)
    /\ k \in 1..Len(srvNotifs)
    /\ srvRegistered # None
    /\ chan' = Append(chan, [srvNotifs[k] EXCEPT !.isRead = FALSE])
    /\ lastOp' = Op("serverRedeliver", srvNotifs[k].id)
    /\ UNCHANGED <<mounted, authVars, dataVars, notifVars, toasts, loading,
                   filterVars, formVars, sockVars, inflight, now, srvData,
                   srvRegistered, emitted>>

\* a handler that adds the new notification at the end
PrependAtEnd(notif, prev) == Append(prev, notif)

\* the updater of line 195
Prepend(notif, prev) == <<notif>> \o prev

\* the body of onNotification (lines 194-197): prepend, toast, fetchTasks of
\* the closure the handler was created in
Notify(notif) ==
    /\ notifications' = Prepend(notif, notifications)
    /\ pushed' = Append(pushed, notif.id)
    /\ toasts' = ShowToast(toasts, notif.message)
    /\ loading' = TRUE
    /\ inflight' = Append(inflight, TasksReq(handlers[1].scope, handlers[1].status))
    /\ Render

\* a notification event arrives on the connected socket: onNotification
\* (lines 193-211)
OnNotification ==
    /\ UNCHANGED events
    /\ RestartTimers(TRUE)
    /\ chan # <<>>
    /\ sockState = "connected" /\ handlers # <<>>
    /\ Notify(Head(chan))
    /\ lastOp' = Op("onNotification", Head(chan).id)
    /\ chan' = Tail(chan)
    /\ UNCHANGED <<mounted, authVars, dataVars, filterVars, formVars, sockVars,
                   now, srvData, srvRegistered, emitted>>

\* a notification event reaches the socket that logout has closed: it goes to
\* the listeners still attached to that socket, if any
EventAfterTeardown(k) ==
    /\ Spend
    /\ RestartTimers(handlers # <<>>)
    /\ sockState = "closed"
    /\ k \in 1..Len(srvNotifs)
    /\ IF handlers # <<>>
       THEN Notify(srvNotifs[k])
       ELSE UNCHANGED <<notifVars, toasts, loading, inflight>>
    /\ lastOp' = Op("eventAfterTeardown", srvNotifs[k].id)
    /\ UNCHANGED <<mounted, authVars, dataVars, filterVars, formVars, sockVars,
                   now, srvData, pushVars>>


\* ------------------------------------------------------------ snapshots
\* history only: the task fetches issued before the one at position i
MarkLate(q, i) ==
    [j \in 1..Len(q) |->
        IF j < i /\ q[j].kind = "tasks" THEN [q[j] EXCEPT !.late = TRUE] ELSE q[j]]

\* a catch block that clears the collection
AfterFetchWipes(prev, ok, data) == IF ok THEN data ELSE <<>>

\* the list a fetch leaves behind: set...(list) in the try block, nothing in
\* the catch block (lines 233-238, 258-263, 272-277)
AfterFetch(prev, ok, data) == IF ok THEN data ELSE prev

\* fetchUsers after its await (lines 233-241)
ReceiveUsers(i, ok) ==
    /\ UNCHANGED events
    /\ RestartTimers(TRUE)
    /\ i \in 1..Len(inflight) /\ inflight[i].kind = "users"
    /\ IF ok
       THEN UNCHANGED toasts
       ELSE toasts' = ShowToast(toasts, "Failed to fetch users")
    /\ users' = AfterFetch(users, ok, inflight[i].data)
    /\ loading' = FALSE
    /\ inflight' = RemoveAt(inflight, i)
    /\ lastOp' = Op(IF ok THEN "fetchUsersOk" ELSE "fetchUsersFail", None)
    /\ UNCHANGED <<mounted, authVars, tasks, logsByTask, notifVars, filterVars,
                   formVars, sockVars, now, srvData, pushVars>>

\* fetchTasks after its await (lines 258-266)
ReceiveTasks(i, ok) ==
    /\ UNCHANGED events
    /\ RestartTimers(TRUE)
    /\ i \in 1..Len(inflight) /\ inflight[i].kind = "tasks"
    /\ IF ok
       THEN /\ inflight' = RemoveAt(MarkLate(inflight, i), i)
            /\ UNCHANGED toasts
       ELSE /\ toasts' = ShowToast(toasts, "Failed to fetch tasks")
            /\ inflight' = RemoveAt(inflight, i)
    /\ tasks' = AfterFetch(tasks, ok, inflight[i].data)
    /\ loading' = FALSE
    /\ lastOp' = Op(IF ok THEN "fetchTasksOk" ELSE "fetchTasksFail",
                    IF inflight[i].late THEN "late" ELSE "current")
    /\ UNCHANGED <<mounted, authVars, users, logsByTask, notifVars, filterVars,
                   formVars, sockVars, now, srvData, pushVars>>

\* the Refresh button: fetchNotifications up to its await (269-272)
FetchNotifications(order) ==
    /\ Spend
    /\ RestartTimers(FALSE)
    /\ PageOpen
    /\ inflight' = Append(inflight, NotifsReq(order, "refresh"))
    /\ lastOp' = Op("fetchNotifications", None)
    /\ UNCHANGED <<mounted, authVars, dataVars, notifVars, toasts, loading,
                   filterVars, formVars, sockVars, now, srvData, pushVars>>

\* fetchNotifications after its await (lines 273-277)
ReceiveNotifications(i, ok) ==
    /\ UNCHANGED events
    /\ RestartTimers(ok)
    /\ i \in 1..Len(inflight) /\ inflight[i].kind = "notifs"
    /\ notifications' = AfterFetch(notifications, ok, inflight[i].data)
    /\ pushed' = IF ok THEN <<>> ELSE pushed
    /\ inflight' = RemoveAt(inflight, i)
    /\ Render
    /\ lastOp' = Op(IF ok THEN "fetchNotificationsOk" ELSE "fetchNotificationsFail",
                    inflight[i].arg)
    /\ UNCHANGED <<mounted, authVars, dataVars, toasts, loading, filterVars,
                   formVars, sockVars, now, srvData, pushVars>>

\* the message of the toast a failed fetch shows (lines 238, 263, 287);
\* fetchNotifications shows none
FetchFailedToast(kind) ==
    CASE kind = "users" -> <<"Failed to fetch users">>
      [] kind = "tasks" -> <<"Failed to fetch tasks">>
      [] kind = "logs" -> <<"Failed to fetch task logs">>
      [] OTHER -> <<>>

\* the server answers fetch i with 401 (the credential is expired or invalid):
\* axios rejects, and the catch block of the fetch runs as for any other
\* failure (lines 236-241, 261-266, 275-277, 285-288)
ReceiveUnauthorized(i) ==
    /\ UNCHANGED events
    /\ i \in 1..Len(inflight)
    /\ inflight[i].kind \in {"users", "tasks", "notifs", "logs"}
    /\ RestartTimers(inflight[i].kind # "notifs")
    /\ toasts' = IF FetchFailedToast(inflight[i].kind) # <<>>
                 THEN ShowToast(toasts, FetchFailedToast(inflight[i].kind)[1])
                 ELSE toasts
    /\ loading' = IF inflight[i].kind \in {"users", "tasks"} THEN FALSE ELSE loading
    /\ inflight' = RemoveAt(inflight, i)
    /\ lastOp' = Op("unauthorized", inflight[i].kind)
    /\ UNCHANGED <<mounted, authVars, dataVars, notifVars, filterVars, formVars,
                   sockVars, now, srvData, pushVars>>

\* the effect of lines 300-302 after a filter select changed filterStatus
\* (filterPriority and searchTerm take the same path)
SetFilterStatus(v) ==
    /\ Spend
    /\ RestartTimers(TRUE)
    /\ PageOpen
    /\ v \in StatusFilters /\ v # filterStatus
    /\ filterStatus' = v
    /\ loading' = TRUE
    /\ inflight' = Append(inflight, TasksReq(scope, v))
    /\ lastOp' = Op("setFilterStatus", v)
    /\ UNCHANGED <<mounted, authVars, dataVars, notifVars, toasts, scope,
                   formVars, sockVars, now, srvData, pushVars>>

\* the effect of lines 292-298 after the scope select changed scope
SetScope(v) ==
    /\ Spend
    /\ RestartTimers(TRUE)
    /\ PageOpen
    /\ v \in Scopes /\ v # scope
    /\ scope' = v
    /\ loading' = TRUE
    /\ \E order \in ListOrders :
          inflight' = inflight \o <<UsersReq, TasksReq(v, filterStatus),
                                    NotifsReq(order, "bootstrap")>>
    /\ lastOp' = Op("setScope", v)
    /\ UNCHANGED <<mounted, authVars, dataVars, notifVars, toasts, filterStatus,
                   formVars, sockVars, now, srvData, pushVars>>

\* ------------------------------------------------------------ read state
SrvMarkRead(ns, id) ==
    [k \in 1..Len(ns) |-> IF ns[k].id = id THEN [ns[k] EXCEPT !.isRead = TRUE] ELSE ns[k]]

SrvMarkAll(ns) == [k \in 1..Len(ns) |-> [ns[k] EXCEPT !.isRead = TRUE]]

\* the updater of lines 470-474
FlipRead(prev, id) ==
    [k \in 1..Len(prev) |->
        IF prev[k].id = id THEN [prev[k] EXCEPT !.isRead = TRUE] ELSE prev[k]]

\* the updater of lines 497-499
FlipAll(prev) ==
    [k \in 1..Len(prev) |->
        IF prev[k].isRead THEN prev[k] ELSE [prev[k] EXCEPT !.isRead = TRUE]]

\* a continuation that flips whatever the response says
AfterMarkReadAlways(prev, ok, id) == FlipRead(prev, id)

\* lines 469-475: the flip happens only under response.data.success
AfterMarkRead(prev, ok, id) == IF ok THEN FlipRead(prev, id) ELSE prev

\* a test of the list's length instead of the unread entries
NothingToMarkWhenEmpty(ns) == Len(ns) = 0

\* lines 486-487: unreadNotifs.length === 0
NothingToMark(ns) == UnreadCountOf(ns) = 0

\* click on an unread entry: markNotificationRead up to its await (463-467)
MarkNotificationRead(k, good) ==
    /\ Spend
    /\ RestartTimers(FALSE)
    /\ PageOpen
    /\ k \in 1..Len(notifications) /\ ~notifications[k].isRead
    /\ LET id == notifications[k].id
       IN /\ inflight' = Append(inflight, Req("markRead", good, id, None))
          /\ srvNotifs' = IF good THEN SrvMarkRead(srvNotifs, id) ELSE srvNotifs
          /\ lastOp' = Op("markNotificationRead", id)
    /\ UNCHANGED <<mounted, authVars, dataVars, notifVars, toasts, loading,
                   filterVars, formVars, sockVars, now, srvTasks, srvLogs,
                   pushVars>>

\* markNotificationRead after its await (lines 469-478)
ReceiveMarkRead(i) ==
    /\ UNCHANGED events
    /\ RestartTimers(inflight[i].ok)
    /\ i \in 1..Len(inflight) /\ inflight[i].kind = "markRead"
    /\ notifications' = AfterMarkRead(notifications, inflight[i].ok, inflight[i].arg)
    /\ pushed' = pushed
    /\ inflight' = RemoveAt(inflight, i)
    /\ Render
    /\ lastOp' = Op(IF inflight[i].ok THEN "markReadOk" ELSE "markReadFail",
                    inflight[i].arg)
    /\ UNCHANGED <<mounted, authVars, dataVars, toasts, loading, filterVars,
                   formVars, sockVars, now, srvData, pushVars>>

\* the ids of unreadNotifs, the unread entries of the list when
\* markAllReadLocal is invoked (line 486)
UnreadIds(ns) == {ns[k].id : k \in {j \in 1..Len(ns) : ~ns[j].isRead}}

\* markAllReadLocal up to its return or its await (lines 481-493); the request
\* carries unreadNotifs, which the pending continuation holds
MarkAllReadLocal ==
    /\ Spend
    /\ RestartTimers(NothingToMark(notifications))
    /\ PageOpen
    /\ IF NothingToMark(notifications)
       THEN /\ toasts' = ShowToast(toasts, "No unread notifications to mark")
            /\ lastOp' = Op("markAllReadLocal", "none unread")
            /\ UNCHANGED <<inflight, srvNotifs>>
       ELSE /\ \E good \in BOOLEAN :
                /\ inflight' = Append(inflight,
                       Req("markAll", good, UnreadIds(notifications),
                           UnreadCountOf(srvNotifs)))
                /\ srvNotifs' = IF good THEN SrvMarkAll(srvNotifs) ELSE srvNotifs
            /\ lastOp' = Op("markAllReadLocal", "call")
            /\ UNCHANGED toasts
    /\ UNCHANGED <<mounted, authVars, dataVars, notifVars, loading, filterVars,
                   formVars, sockVars, now, srvTasks, srvLogs, pushVars>>

\* markAllReadLocal after its await (lines 495-505)
ReceiveMarkAll(i) ==
    /\ UNCHANGED events
    /\ RestartTimers(TRUE)
    /\ i \in 1..Len(inflight) /\ inflight[i].kind = "markAll"
    /\ IF inflight[i].ok
       THEN /\ notifications' = FlipAll(notifications)
            /\ pushed' = pushed
            /\ toasts' = ShowToast(toasts,
                   ToString(inflight[i].data) \o " notifications marked as read")
       ELSE /\ UNCHANGED <<notifications, pushed>>
            /\ toasts' = ShowToast(toasts, "Failed to mark notifications as read")
    /\ inflight' = RemoveAt(inflight, i)
    /\ Render
    /\ lastOp' = Op(IF inflight[i].ok THEN "markAllOk" ELSE "markAllFail", None)
    /\ UNCHANGED <<mounted, authVars, dataVars, loading, filterVars, formVars,
                   sockVars, now, srvData, pushVars>>


\* ----------------------------------------------------------------- tasks
Created == {e \in srvLogs : e[2] = "created"}

\* openCreate (lines 362-373); the button is disabled while loading
OpenCreate ==
    /\ UNCHANGED events
    /\ RestartTimers(TRUE)
    /\ PageOpen /\ ~loading
    /\ editing' = <<>>
    /\ showTaskForm' = TRUE
    /\ lastOp' = Op("openCreate", None)
    /\ UNCHANGED <<mounted, authVars, dataVars, notifVars, toasts, loading,
                   filterVars, sockVars, inflight, now, srvData, pushVars>>

\* openEdit (lines 375-386)
OpenEdit(k) ==
    /\ UNCHANGED events
    /\ RestartTimers(TRUE)
    /\ PageOpen
    /\ k \in 1..Len(tasks)
    /\ editing' = <<tasks[k]>>
    /\ showTaskForm' = TRUE
    /\ lastOp' = Op("openEdit", tasks[k].id)
    /\ UNCHANGED <<mounted, authVars, dataVars, notifVars, toasts, loading,
                   filterVars, sockVars, inflight, now, srvData, pushVars>>

\* the form's Cancel button (lines 836-842), disabled while loading
CancelForm ==
    /\ UNCHANGED events
    /\ RestartTimers(TRUE)
    /\ mounted /\ currentUser # None
    /\ showTaskForm /\ ~loading
    /\ showTaskForm' = FALSE
    /\ editing' = <<>>
    /\ lastOp' = Op("cancelForm", None)
    /\ UNCHANGED <<mounted, authVars, dataVars, notifVars, toasts, loading,
                   filterVars, sockVars, inflight, now, srvData, pushVars>>

\* PUT /tasks/:id on the server
SrvUpdate(ts, id, st) ==
    [k \in 1..Len(ts) |-> IF ts[k].id = id THEN [ts[k] EXCEPT !.status = st] ELSE ts[k]]

\* submitTask up to its await (lines 388-403 and 408); st is the status chosen
\* in the form, good the server's verdict on the payload
SubmitTask(st, good) ==
    /\ Spend
    /\ RestartTimers(TRUE)
    /\ mounted /\ currentUser # None
    /\ showTaskForm /\ ~loading
    /\ loading' = TRUE
    /\ IF editing # <<>>
       THEN LET id == editing[1].id
                ok == good /\ id \in Ids(srvTasks)
                updated == [editing[1] EXCEPT !.status = st]
            IN /\ inflight' = Append(inflight, Req("update", ok, id, updated))
               /\ srvTasks' = IF ok THEN SrvUpdate(srvTasks, id, st) ELSE srvTasks
               /\ srvLogs' = IF ok THEN srvLogs \cup {<<id, "updated">>} ELSE srvLogs
               /\ lastOp' = Op("submitTask", id)
       ELSE LET ok == good
                newTask == [id |-> NewTaskIds[Cardinality(Created) + 1],
                            status |-> st, mine |-> TRUE]
            IN /\ inflight' = Append(inflight, Req("create", ok, None, newTask))
               /\ srvTasks' = IF ok THEN <<newTask>> \o srvTasks ELSE srvTasks
               /\ srvLogs' = IF ok THEN srvLogs \cup {<<newTask.id, "created">>}
                             ELSE srvLogs
               /\ lastOp' = Op("submitTask", None)
    /\ UNCHANGED <<mounted, authVars, dataVars, notifVars, toasts, filterVars,
                   formVars, sockVars, now, srvNotifs, pushVars>>

\* a continuation that applies the change whatever the call's outcome
AfterWriteAlways(prev, ok, next) == next

\* what a create, update or delete leaves behind: the updater runs after the
\* await in the try block, the catch block sets nothing (lines 403-417,
\* 430-440)
AfterWrite(prev, ok, next) == IF ok THEN next ELSE prev

\* submitTask after the await of api.post (lines 409-421)
ReceiveCreate(i) ==
    /\ UNCHANGED events
    /\ RestartTimers(TRUE)
    /\ i \in 1..Len(inflight) /\ inflight[i].kind = "create"
    /\ IF inflight[i].ok
       THEN /\ toasts' = ShowToast(toasts, "Task created successfully!")
            /\ showTaskForm' = FALSE
            /\ editing' = <<>>
            /\ lastOp' = Op("createOk", inflight[i].data.id)
       ELSE /\ toasts' = ShowToast(toasts, "Failed to save task")
            /\ lastOp' = Op("createFail", None)
            /\ UNCHANGED formVars
    /\ tasks' = AfterWrite(tasks, inflight[i].ok, <<inflight[i].data>> \o tasks)
    /\ loading' = FALSE
    /\ inflight' = RemoveAt(inflight, i)
    /\ UNCHANGED <<mounted, authVars, users, logsByTask, notifVars, filterVars,
                   sockVars, now, srvData, pushVars>>

\* an updater that writes the returned task over every entry
ReplaceTaskAll(prev, id, updatedTask) ==
    [k \in 1..Len(prev) |-> updatedTask]

\* the updater of line 405
ReplaceTask(prev, id, updatedTask) ==
    [k \in 1..Len(prev) |-> IF prev[k].id = id THEN updatedTask ELSE prev[k]]

\* submitTask after the await of api.put (lines 404-406, 414-421)
ReceiveUpdate(i) ==
    /\ UNCHANGED events
    /\ RestartTimers(TRUE)
    /\ i \in 1..Len(inflight) /\ inflight[i].kind = "update"
    /\ IF inflight[i].ok
       THEN /\ toasts' = ShowToast(toasts, "Task updated successfully!")
            /\ showTaskForm' = FALSE
            /\ editing' = <<>>
            /\ lastOp' = Op("updateOk", inflight[i].arg)
       ELSE /\ toasts' = ShowToast(toasts, "Failed to save task")
            /\ lastOp' = Op("updateFail", inflight[i].arg)
            /\ UNCHANGED formVars
    /\ tasks' = AfterWrite(tasks, inflight[i].ok,
                           ReplaceTask(tasks, inflight[i].arg, inflight[i].data))
    /\ loading' = FALSE
    /\ inflight' = RemoveAt(inflight, i)
    /\ UNCHANGED <<mounted, authVars, users, logsByTask, notifVars, filterVars,
                   sockVars, now, srvData, pushVars>>

\* a dialog whose answer is not looked at
ConfirmSkipped(answer) == TRUE

\* confirm("Delete this task?") with the user's answer (line 425)
Confirm(answer) == answer

\* deleteTask up to its return or its await (lines 424-430); lastOp records
\* the user's answer to the dialog
DeleteTask(k, confirmed, good) ==
    /\ Spend
    /\ RestartTimers(Confirm(confirmed))
    /\ PageOpen
    /\ k \in 1..Len(tasks)
    /\ lastOp' = Op("deleteTask", IF confirmed THEN tasks[k].id ELSE "declined")
    /\ IF ~Confirm(confirmed)
       THEN UNCHANGED <<loading, inflight, srvTasks>>
       ELSE LET id == tasks[k].id
                ok == good /\ id \in Ids(srvTasks)
            IN /\ loading' = TRUE
               /\ inflight' = Append(inflight, Req("delete", ok, id, None))
               /\ srvTasks' = IF ok THEN SelectSeq(srvTasks, LAMBDA t : t.id # id)
                              ELSE srvTasks
    /\ UNCHANGED <<mounted, authVars, dataVars, notifVars, toasts, filterVars,
                   formVars, sockVars, now, srvLogs, srvNotifs, pushVars>>

\* deleteTask after its await (lines 431-443)
ReceiveDelete(i) ==
    /\ UNCHANGED events
    /\ RestartTimers(TRUE)
    /\ i \in 1..Len(inflight) /\ inflight[i].kind = "delete"
    /\ IF inflight[i].ok
       THEN /\ toasts' = ShowToast(toasts, "Task deleted successfully!")
            /\ lastOp' = Op("deleteOk", inflight[i].arg)
       ELSE /\ toasts' = ShowToast(toasts, "Failed to delete task")
            /\ lastOp' = Op("deleteFail", inflight[i].arg)
    /\ tasks' = AfterWrite(tasks, inflight[i].ok,
                           SelectSeq(tasks, LAMBDA x : x.id # inflight[i].arg))
    /\ logsByTask' = AfterWrite(logsByTask, inflight[i].ok,
                                {e \in logsByTask : e[1] # inflight[i].arg})
    /\ loading' = FALSE
    /\ inflight' = RemoveAt(inflight, i)
    /\ UNCHANGED <<mounted, authVars, users, notifVars, filterVars, formVars,
                   sockVars, now, srvData, pushVars>>

\* the Logs button: fetchLogs up to its await (lines 280-282)
FetchLogs(k) ==
    /\ Spend
    /\ RestartTimers(FALSE)
    /\ PageOpen
    /\ k \in 1..Len(tasks)
    /\ inflight' = Append(inflight,
           Req("logs", TRUE, tasks[k].id, SrvListLogs(tasks[k].id)))
    /\ lastOp' = Op("fetchLogs", tasks[k].id)
    /\ UNCHANGED <<mounted, authVars, dataVars, notifVars, toasts, loading,
                   filterVars, formVars, sockVars, now, srvData, pushVars>>

\* fetchLogs after its await (lines 283-288)
ReceiveLogs(i, ok) ==
    /\ UNCHANGED events
    /\ RestartTimers(TRUE)
    /\ i \in 1..Len(inflight) /\ inflight[i].kind = "logs"
    /\ IF ok
       THEN /\ logsByTask' = {e \in logsByTask : e[1] # inflight[i].arg}
                                \cup {<<inflight[i].arg, inflight[i].data>>}
            /\ UNCHANGED toasts
       ELSE /\ toasts' = ShowToast(toasts, "Failed to fetch task logs")
            /\ UNCHANGED logsByTask
    /\ inflight' = RemoveAt(inflight, i)
    /\ lastOp' = Op(IF ok THEN "fetchLogsOk" ELSE "fetchLogsFail", inflight[i].arg)
    /\ UNCHANGED <<mounted, authVars, users, tasks, notifVars, loading,
                   filterVars, formVars, sockVars, now, srvData, pushVars>>

\* ---------------------------------------------------------------- toasts
\* the timer of the k-th toast fires: onClose (lines 66 and 597)
ExpireToast(k) ==
    /\ UNCHANGED events
    /\ RestartTimers(TRUE)
    /\ k \in 1..Len(toasts)
    /\ now >= TimersDue
    /\ toasts' = RemoveToast(toasts, toasts[k].id)
    /\ lastOp' = Op("expireToast", toasts[k].message)
    /\ UNCHANGED <<mounted, authVars, dataVars, notifVars, loading, filterVars,
                   formVars, sockVars, inflight, now, srvData, pushVars>>

\* the close button of the k-th toast: onClose (lines 75 and 597)
CloseToast(k) ==
    /\ Spend
    /\ RestartTimers(TRUE)
    /\ k \in 1..Len(toasts)
    /\ toasts' = RemoveToast(toasts, toasts[k].id)
    /\ lastOp' = Op("closeToast", toasts[k].message)
    /\ UNCHANGED <<mounted, authVars, dataVars, notifVars, loading, filterVars,
                   formVars, sockVars, inflight, now, srvData, pushVars>>

\* time passes, by a millisecond or up to the instant the timers are due; a
\* timer that is due fires before time passes
Tick(t) ==
    /\ Spend
    /\ RestartTimers(FALSE)
    /\ t \in {now + 1} \cup (IF toasts # <<>> THEN {TimersDue} ELSE {})
    /\ t > now
    /\ toasts # <<>> => t <= TimersDue
    /\ now' = t
    /\ lastOp' = Op("tick", None)
    /\ UNCHANGED <<mounted, authVars, dataVars, notifVars, toasts, loading,
                   filterVars, formVars, sockVars, inflight, srvData, pushVars>>

\* ------------------------------------------------------------------ Next
\* continuations of awaited calls, and the first render
Continue ==
    \/ Mount
    \/ \E i \in 1..Len(inflight) : ReceiveLogin(i)
    \/ \E i \in 1..Len(inflight) : ReceiveRegister(i)
    \/ \E i \in 1..Len(inflight), ok \in BOOLEAN : ReceiveUsers(i, ok)
    \/ \E i \in 1..Len(inflight), ok \in BOOLEAN : ReceiveTasks(i, ok)
    \/ \E i \in 1..Len(inflight), ok \in BOOLEAN : ReceiveNotifications(i, ok)
    \/ \E i \in 1..Len(inflight) : ReceiveUnauthorized(i)
    \/ \E i \in 1..Len(inflight) : ReceiveMarkRead(i)
    \/ \E i \in 1..Len(inflight) : ReceiveMarkAll(i)
    \/ \E i \in 1..Len(inflight) : ReceiveCreate(i)
    \/ \E i \in 1..Len(inflight) : ReceiveUpdate(i)
    \/ \E i \in 1..Len(inflight) : ReceiveDelete(i)
    \/ \E i \in 1..Len(inflight), ok \in BOOLEAN : ReceiveLogs(i, ok)

\* the session buttons and forms
SessionEvents ==
    \/ \E u \in UserIds, good \in BOOLEAN : HandleLogin(u, good)
    \/ \E good \in BOOLEAN : HandleRegister(good)
    \/ HandleLogout

\* the push channel and the notification panel
NotificationEvents ==
    \/ SocketConnect
    \/ SocketDrop
    \/ ServerNotify
    \/ \E k \in 1..Len(srvNotifs) : ServerRedeliver(k)
    \/ OnNotification
    \/ \E k \in 1..Len(srvNotifs) : EventAfterTeardown(k)
    \/ \E order \in ListOrders : FetchNotifications(order)
    \/ \E k \in 1..Len(notifications), good \in BOOLEAN : MarkNotificationRead(k, good)
    \/ MarkAllReadLocal

\* the filters, the task form and the task cards
TaskEvents ==
    \/ \E v \in StatusFilters : SetFilterStatus(v)
    \/ \E v \in Scopes : SetScope(v)
    \/ OpenCreate
    \/ \E k \in 1..Len(tasks) : OpenEdit(k)
    \/ \E st \in Statuses, good \in BOOLEAN : SubmitTask(st, good)
    \/ CancelForm
    \/ \E k \in 1..Len(tasks), c \in BOOLEAN, good \in BOOLEAN : DeleteTask(k, c, good)
    \/ \E k \in 1..Len(tasks) : FetchLogs(k)

ToastEvents ==
    \/ \E k \in 1..Len(toasts) : CloseToast(k)
    \/ \E k \in 1..Len(toasts) : ExpireToast(k)
    \/ \E t \in {now + 1, TimersDue} : Tick(t)

Next == Continue \/ SessionEvents \/ NotificationEvents \/ TaskEvents \/ ToastEvents

Spec == Init /\ [][Next]_vars

\* The specifications below run the same actions in narrower environments,
\* so that MaxEvents events reach the cases a claim is about.

\* what every restored session runs: the first render, the three fetches of
\* the bootstrap effect, and logout
Session ==
    \/ Mount
    \/ HandleLogout
    \/ \E i \in 1..Len(inflight), ok \in BOOLEAN : ReceiveUsers(i, ok)
    \/ \E i \in 1..Len(inflight), ok \in BOOLEAN : ReceiveTasks(i, ok)
    \/ \E i \in 1..Len(inflight), ok \in BOOLEAN : ReceiveNotifications(i, ok)

\* the page while the user works with the notifications only; the users and
\* tasks fetches succeed
NextNotif ==
    \/ Mount
    \/ HandleLogout
    \/ \E i \in 1..Len(inflight) : ReceiveUsers(i, TRUE)
    \/ \E i \in 1..Len(inflight) : ReceiveTasks(i, TRUE)
    \/ \E i \in 1..Len(inflight), ok \in BOOLEAN : ReceiveNotifications(i, ok)
    \/ NotificationEvents
    \/ \E i \in 1..Len(inflight) : ReceiveMarkRead(i)
    \/ \E i \in 1..Len(inflight) : ReceiveMarkAll(i)

SpecNotif == Init /\ [][NextNotif]_vars

\* what the page and the socket do without the user: the first render, the
\* continuation of every call in flight (a response or a failure arrives),
\* the reconnection of the socket (reconnection: true, line 175) and the
\* delivery of the events emitted to it
NotifProgress ==
    \/ Mount
    \/ \E i \in 1..Len(inflight) : ReceiveUsers(i, TRUE)
    \/ \E i \in 1..Len(inflight) : ReceiveTasks(i, TRUE)
    \/ \E i \in 1..Len(inflight), ok \in BOOLEAN : ReceiveNotifications(i, ok)
    \/ \E i \in 1..Len(inflight) : ReceiveMarkRead(i)
    \/ \E i \in 1..Len(inflight) : ReceiveMarkAll(i)
    \/ SocketConnect
    \/ OnNotification

\* the same page, where those steps are not postponed for ever; nothing
\* obliges the user or the server to act
SpecNotifLive == Init /\ [][NextNotif]_vars /\ WF_vars(NotifProgress)

\* a restored session whose users and notifications fetches succeed
TaskSession ==
    \/ Mount
    \/ HandleLogout
    \/ \E i \in 1..Len(inflight) : ReceiveUsers(i, TRUE)
    \/ \E i \in 1..Len(inflight), ok \in BOOLEAN : ReceiveTasks(i, ok)
    \/ \E i \in 1..Len(inflight) : ReceiveNotifications(i, TRUE)

\* the page while the user works with the tasks only, within one scope
NextTasks ==
    \/ TaskSession
    \/ \E v \in StatusFilters : SetFilterStatus(v)
    \/ OpenCreate
    \/ \E k \in 1..Len(tasks) : OpenEdit(k)
    \/ \E st \in Statuses, good \in BOOLEAN : SubmitTask(st, good)
    \/ CancelForm
    \/ \E k \in 1..Len(tasks), c \in BOOLEAN, good \in BOOLEAN : DeleteTask(k, c, good)
    \/ \E k \in 1..Len(tasks) : FetchLogs(k)
    \/ \E i \in 1..Len(inflight) : ReceiveCreate(i)
    \/ \E i \in 1..Len(inflight) : ReceiveUpdate(i)
    \/ \E i \in 1..Len(inflight) : ReceiveDelete(i)
    \/ \E i \in 1..Len(inflight), ok \in BOOLEAN : ReceiveLogs(i, ok)

SpecTasks == Init /\ [][NextTasks]_vars

\* the page while the user creates tasks and filters them, and the server
\* announces new notifications over the socket
NextCreate ==
    \/ TaskSession
    \/ \E v \in StatusFilters : SetFilterStatus(v)
    \/ OpenCreate
    \/ \E st \in Statuses, good \in BOOLEAN : SubmitTask(st, good)
    \/ CancelForm
    \/ \E i \in 1..Len(inflight) : ReceiveCreate(i)
    \/ SocketConnect
    \/ ServerNotify
    \/ OnNotification

SpecCreate == Init /\ [][NextCreate]_vars

\* the page while the user logs in and out, with the socket's life and the
\* log cache; every fetch may fail
NextSession ==
    \/ Session
    \/ \E u \in UserIds, good \in BOOLEAN : HandleLogin(u, good)
    \/ \E i \in 1..Len(inflight) : ReceiveLogin(i)
    \/ \E i \in 1..Len(inflight) : ReceiveUnauthorized(i)
    \/ SocketConnect
    \/ SocketDrop
    \/ \E k \in 1..Len(srvNotifs) : EventAfterTeardown(k)
    \/ \E k \in 1..Len(tasks) : FetchLogs(k)
    \/ \E i \in 1..Len(inflight), ok \in BOOLEAN : ReceiveLogs(i, ok)

SpecSession == Init /\ [][NextSession]_vars

\* the page while its requests fail and the user watches the toasts
NextToasts ==
    \/ Session
    \/ ToastEvents

SpecToasts == Init /\ [][NextToasts]_vars

\* ================================================================ claims
\* C1: the notification list never holds two entries with the same id.
C1_AtMostOneEntryPerId ==
    \A id \in Ids(notifications) : CountId(notifications, id) = 1

\* C2: a push event whose id is already in the list changes neither the list
\* nor the toast queue.
C2_DuplicatePushIgnored ==
    [][(lastOp'.op = "onNotification" /\ lastOp'.arg \in Ids(notifications))
          => (notifications' = notifications /\ toasts' = toasts)]_vars

\* C3: the response of a task fetch that arrives after the response of a task
\* fetch issued later does not change the task list.
C3_SupersededResponseDiscarded ==
    [][(lastOp'.op = "fetchTasksOk" /\ lastOp'.arg = "late")
          => tasks' = tasks]_vars

\* C4: right after logout the task list, the notification list and the log
\* cache are empty, the stored token and identity are gone, there is no
\* session, and no socket is held or connected.
C4_LogoutResetsEverything ==
    lastOp.op = "logout" =>
        /\ tasks = <<>> /\ notifications = <<>> /\ logsByTask = {}
        /\ token = None /\ storedUser = None
        /\ currentUser = None
        /\ socketRef = None
        /\ sockState \notin {"connecting", "connected"}
        /\ srvRegistered = None

\* a logout out of a session with tasks, notifications, cached logs and a
\* connected socket
C4_Witness == lastOp = Op("logout", "loaded")

\* C5: when the response of a successful create arrives, the created task is
\* the new first entry, it is the list's only entry with that id, the other
\* entries are kept, and no call is issued.
C5_CreateInsertsOnce ==
    [][lastOp'.op = "createOk"
          => /\ Len(tasks') = Len(tasks) + 1
             /\ tasks'[1].id = lastOp'.arg
             /\ CountId(tasks', lastOp'.arg) = 1
             /\ Len(inflight') = Len(inflight) - 1]_vars

\* C6: the unread count shown is the number of entries of the notification
\* list with isRead = false.
C6_UnreadCountMatches ==
    unreadCount = Cardinality({k \in 1..Len(notifications) : ~notifications[k].isRead})

\* a confirmed markRead left one of two entries unread
C6_Witness ==
    /\ lastOp.op = "markReadOk"
    /\ Len(notifications) = 2
    /\ unreadCount = 1

\* C7: while the ids pushed since the list was last replaced are distinct,
\* the list starts with them, the latest first.
C7_PushesMostRecentFirst ==
    Cardinality({pushed[k] : k \in 1..Len(pushed)}) = Len(pushed) =>
        /\ Len(notifications) >= Len(pushed)
        /\ \A k \in 1..Len(pushed) :
              notifications[k].id = pushed[Len(pushed) + 1 - k]

\* two push events with different ids, no snapshot in between
C7_Witness ==
    /\ Len(pushed) = 2
    /\ pushed[1] # pushed[2]
    /\ lastOp.op = "onNotification"

\* C8 as stated: while the confirm call of markRead(id) is pending, the entry
\* is already read locally.
C8_OptimisticFlip ==
    \A i \in 1..Len(inflight) :
        inflight[i].kind = "markRead" =>
            \A k \in 1..Len(notifications) :
                notifications[k].id = inflight[i].arg => notifications[k].isRead

\* C8 as amended: invoking markRead(id) leaves the list as it is; a confirm
\* response that reports success sets isRead on the entries with that id and
\* on nothing else; a failed confirm call leaves the list as it is.
C8_FlipOnlyOnConfirm ==
    [][/\ lastOp'.op \in {"markNotificationRead", "markReadFail"}
          => notifications' = notifications
       /\ lastOp'.op = "markReadOk"
          => /\ Len(notifications') = Len(notifications)
             /\ \A k \in 1..Len(notifications) :
                   notifications'[k] =
                       IF notifications[k].id = lastOp'.arg
                       THEN [notifications[k] EXCEPT !.isRead = TRUE]
                       ELSE notifications[k]]_vars

\* a confirm call failed and the entry it was about is still unread
C8_Witness ==
    /\ lastOp.op = "markReadFail"
    /\ \E k \in 1..Len(notifications) :
          notifications[k].id = lastOp.arg /\ ~notifications[k].isRead

\* C9: markAllRead invoked with no unread entry issues no call and leaves the
\* notification list as it is.
C9_MarkAllNoCallWhenNoneUnread ==
    [][(lastOp'.op = "markAllReadLocal"
          /\ \A k \in 1..Len(notifications) : notifications[k].isRead)
          => (inflight' = inflight /\ notifications' = notifications)]_vars

\* markAllRead returned early on a list whose entries are all read
C9_Witness ==
    /\ lastOp = Op("markAllReadLocal", "none unread")
    /\ notifications # <<>>
    /\ inflight = <<>>

\* C10: the step that handles a failed listUsers, listTasks, listNotifications
\* or listLogs call changes none of users, tasks, notifications, log cache.
C10_FailedReadKeepsCollections ==
    [][lastOp'.op \in FailedReads
          => UNCHANGED <<users, tasks, notifications, logsByTask>>]_vars

\* a failed read with all four collections loaded
C10_Witness ==
    /\ lastOp.op \in FailedReads
    /\ users # <<>> /\ tasks # <<>> /\ notifications # <<>> /\ logsByTask # {}

\* C11: the step that handles a failed create, update or delete call changes
\* neither the task list nor the log cache.
C11_FailedWriteKeepsTasksAndLogs ==
    [][lastOp'.op \in {"createFail", "updateFail", "deleteFail"}
          => UNCHANGED <<tasks, logsByTask>>]_vars

\* a failed update or delete of a listed task whose logs are cached
C11_Witness ==
    /\ lastOp.op \in {"updateFail", "deleteFail"}
    /\ lastOp.arg \in Ids(tasks)
    /\ \E e \in logsByTask : e[1] = lastOp.arg

\* C12: the step that handles a failed user-initiated action (login, register,
\* create, update, delete, the fetches of users, tasks and logs, the Refresh
\* of the notifications, mark-all-read) adds exactly one toast to the queue,
\* and the step that handles a failed markRead confirm adds none.
C12_FailedActionToasts ==
    [][/\ (\/ lastOp'.op \in {"loginFail", "registerFail", "createFail",
                               "updateFail", "deleteFail", "fetchUsersFail",
                               "fetchTasksFail", "fetchLogsFail", "markAllFail"}
           \/ lastOp' = Op("fetchNotificationsFail", "refresh"))
          => Len(toasts') = Len(toasts) + 1
       /\ lastOp'.op = "markReadFail" => toasts' = toasts]_vars

C14_RegisterOnEveryConnect ==
    [][(lastOp'.op = "socketConnect" /\ currentUser # None)
          => /\ emitted' = <<currentUser>>
             /\ srvRegistered' = currentUser
             /\ chan' = <<>>]_vars

\* a reconnect after a transport loss, registered again
C14_Witness ==
    /\ lastOp = Op("socketConnect", "reconnect")
    /\ currentUser # None
    /\ emitted = <<currentUser>>

\* C15: after logout no listener is attached to the socket, and a push event
\* delivered to the closed socket changes neither the notification list nor
\* the toast queue and starts no task fetch.
C15_NoDeliveryAfterTeardown ==
    [][lastOp'.op = "eventAfterTeardown"
          => /\ handlers = <<>>
             /\ UNCHANGED <<notifications, toasts, inflight>>]_vars

\* an event delivered after the logout of a session that had connected
C15_Witness ==
    /\ lastOp.op = "eventAfterTeardown"
    /\ currentUser = None
    /\ users # <<>>

\* C16: closing one toast, by its button or by its timer, removes that toast
\* from the queue and no other.
C16_CloseRemovesOneToast ==
    [][lastOp'.op \in {"closeToast", "expireToast"}
          => \E k \in 1..Len(toasts) : toasts' = RemoveAt(toasts, k)]_vars

\* C17: a toast stays in the queue no longer than the expiry interval counted
\* from its creation (its id is the instant it was created).
C17_ToastExpiresOnTime ==
    \A k \in 1..Len(toasts) : now <= toasts[k].id + ToastInterval

\* C18: the step that handles a 401 response to a fetch ends the session: no
\* user, no stored token, empty task list, notification list and log cache,
\* and no push connection.
C18_UnauthorizedForcesLogout ==
    [][lastOp'.op = "unauthorized"
          => /\ currentUser' = None /\ token' = None
             /\ tasks' = <<>> /\ notifications' = <<>> /\ logsByTask' = {}
             /\ socketRef' = None /\ sockets' = 0]_vars

\* C19: a notification the server creates right after the transport of a
\* logged-in user dropped is, from some moment on, in the notification list
\* (unless the user logs out).
C19_MissedNotificationAppears ==
    \A k \in 1..Len(NotifIds) :
        (/\ lastOp = Op("serverNotify", "after drop")
         /\ Len(srvNotifs) = k
         /\ currentUser # None)
            ~> (NotifIds[k] \in Ids(notifications) \/ currentUser = None)

\* C20: after a successful fetch of the notifications the list holds exactly
\* the entries of the response, newest first by createdAt.
C20_SnapshotReplacesAndSorts ==
    [][lastOp'.op = "fetchNotificationsOk"
          => /\ \E i \in 1..Len(inflight) :
                    /\ inflight[i].kind = "notifs"
                    /\ inflight' = RemoveAt(inflight, i)
                    /\ Ids(notifications') = Ids(inflight[i].data)
                    /\ Len(notifications') = Len(inflight[i].data)
             /\ \A a, b \in 1..Len(notifications') :
                    a < b => CreatedAt(notifications'[a].id)
                                > CreatedAt(notifications'[b].id)]_vars

\* C21: a push event whose id is not in the list puts the notification at the
\* front of the list, appends one toast with its message, and issues one task
\* fetch.
C21_NewPushPrependsToastsFetches ==
    [][(lastOp'.op = "onNotification" /\ lastOp'.arg \notin Ids(notifications))
          => /\ notifications' = <<Head(chan)>> \o notifications
             /\ Len(toasts') = Len(toasts) + 1
             /\ toasts'[Len(toasts')].message = Head(chan).message
             /\ Len(inflight') = Len(inflight) + 1
             /\ inflight'[Len(inflight')].kind = "tasks"
             /\ \A j \in 1..Len(inflight) : inflight'[j] = inflight[j]]_vars

\* a push with a new id handled on top of a loaded list
C21_Witness ==
    /\ lastOp.op = "onNotification"
    /\ CountId(notifications, lastOp.arg) = 1
    /\ Len(notifications) = 2
    /\ notifications[1].id = lastOp.arg

\* C22: a successful update puts the task the server returned in the place of
\* the entries with the edited id, a successful delete removes the entries
\* with the deleted id; the other entries keep their values and their order,
\* and neither issues a request.
C22_UpdateDeleteTouchOneEntry ==
    [][/\ lastOp'.op = "updateOk" =>
            \E i \in 1..Len(inflight) :
                /\ inflight[i].kind = "update"
                /\ inflight' = RemoveAt(inflight, i)
                /\ Len(tasks') = Len(tasks)
                /\ \A k \in 1..Len(tasks) :
                       tasks'[k] = IF tasks[k].id = lastOp'.arg
                                   THEN inflight[i].data ELSE tasks[k]
       /\ lastOp'.op = "deleteOk" =>
            /\ tasks' = SelectSeq(tasks, LAMBDA t : t.id # lastOp'.arg)
            /\ Len(inflight') = Len(inflight) - 1]_vars

\* a successful update of one of two listed tasks
C22_Witness ==
    /\ lastOp.op = "updateOk"
    /\ Len(tasks) = 2
    /\ \E k \in 1..2 : tasks[k].id # lastOp.arg

\* C23: a delete call is issued only by a deleteTask whose dialog the user
\* confirmed; a deleteTask whose dialog the user declined issues no call and
\* leaves the state of the page and of the server as it was.
C23_DeleteOnlyWhenConfirmed ==
    [][/\ (Len(SelectSeq(inflight', LAMBDA r : r.kind = "delete"))
             > Len(SelectSeq(inflight, LAMBDA r : r.kind = "delete")))
          => /\ lastOp'.op = "deleteTask"
             /\ lastOp'.arg # "declined"
             /\ events' = events + 1
       /\ (lastOp'.op = "deleteTask" /\ lastOp'.arg = "declined")
          => UNCHANGED <<mounted, authVars, dataVars, notifVars, toasts,
                         timersSetAt, loading, filterVars, formVars, sockVars,
                         inflight, now, srvData, pushVars>>]_vars

\* the user declined the dialog while a task was listed
C23_Witness ==
    /\ lastOp = Op("deleteTask", "declined")
    /\ tasks # <<>>
    /\ \A i \in 1..Len(inflight) : inflight[i].kind # "delete"

\* C24: every task fetch carries the scope and the status filter that the page
\* holds when the fetch is issued, the fetch of a push event included.
C24_FetchUsesCurrentFilter ==
    [][\A j \in (Len(inflight) + 1)..Len(inflight') :
          inflight'[j].kind = "tasks" => inflight'[j].arg = <<scope', filterStatus'>>]_vars

\* C25: from logout until the next successful login (the socket that logout
\* closed has not been replaced) the task list, the notification list and the
\* log cache are empty, whatever responses arrive.
C25_EmptyWhileLoggedOut ==
    sockState = "closed" =>
        /\ tasks = <<>>
        /\ notifications = <<>>
        /\ logsByTask = {}

\* C26: when the page starts with a stored identity that cannot be parsed, the
\* session stays None and the stored identity and the stored token are both
\* removed.
C26_CorruptIdentityClearsStorage ==
    [][lastOp' = Op("mount", "corrupt")
          => /\ currentUser' = None
             /\ storedUser' = None
             /\ token' = None]_vars

\* C27: a notification that a push event put in the list is still in the list
\* after the response of a snapshot that was taken before the push (one that
\* does not list it) has been applied.
C27_PushSurvivesOlderSnapshot ==
    [][lastOp'.op = "fetchNotificationsOk" =>
          \A i \in 1..Len(inflight) :
              (inflight[i].kind = "notifs" /\ inflight' = RemoveAt(inflight, i)) =>
                  \A k \in 1..Len(pushed) :
                      (/\ pushed[k] \in Ids(notifications)
                       /\ pushed[k] \notin Ids(inflight[i].data))
                          => pushed[k] \in Ids(notifications')]_vars

\* C28: when the response of the batch call is applied, a notification that a
\* push event put in the list after markAllReadLocal was invoked (it is unread
\* and was not among the unread entries then) is still unread.
C28_PushDuringMarkAllStaysUnread ==
    [][lastOp'.op = "markAllOk" =>
          \A i \in 1..Len(inflight) :
              (inflight[i].kind = "markAll" /\ inflight' = RemoveAt(inflight, i)) =>
                  \A k \in 1..Len(notifications) :
                      (/\ ~notifications[k].isRead
                       /\ notifications[k].id \notin inflight[i].arg
                       /\ \E j \in 1..Len(pushed) : pushed[j] = notifications[k].id)
                          => /\ Len(notifications') = Len(notifications)
                             /\ ~notifications'[k].isRead]_vars

====
